---- MODULE Spec2Model ----
(***************************************************************************)
(* Model of src/sync_staging_to_prod.py: StagingToProdSync.run() and the   *)
(* stages it calls, as a state machine.  One action per stage of run();    *)
(* the per-unit loop of deploy_edge_functions is one action per iteration. *)
(*                                                                         *)
(* External systems (psql, pg_dump, docker/migra, git, supabase CLI) are   *)
(* the environment: every call's outcome is a nondeterministic choice.     *)
(*   "ok"        return code 0 / no exception                              *)
(*   "fail"      non-zero return code (CalledProcessError with check=True, *)
(*               GitCommandError for git)                                  *)
(*   "timeout"   subprocess.TimeoutExpired (only calls given timeout=)     *)
(*   "error"     any other Exception (OSError, ...)                        *)
(*   "interrupt" KeyboardInterrupt raised while the call is blocking       *)
(* sys.exit(1) raises SystemExit, which `except Exception` does not catch: *)
(* it leaves run() and ends the process with status 1.                     *)
(***************************************************************************)
EXTENDS Integers, Sequences, FiniteSets, TLC

\* ------------------------------------------------------------------ bounds
\* longest output (in lines) of the schema comparison tool
MaxLen == 2
\* most entries of supabase/functions
MaxUnits == 2
\* most configuration keys the process environment overrides
MaxEnvOverrides == 1

VARIABLES
    dry_run,            \* self.dry_run
    allow_destructive,  \* self.allow_destructive
    config,             \* self.config: key -> "default" | "env" | ""
    prod_url,           \* self.prod_url: the project and password baked into it
    staging_url,        \* self.staging_url
    pc,                 \* the stage run() executes next, or "done"
    exit_code,          \* process exit status once pc = "done", -1 before
    stages,             \* history: the stages started so far, in order
    calls,              \* history: the external calls made so far, in order
    migra_out,          \* environment: the full (--unsafe) comparison output
    diff_content,       \* run(): diff_content (a sequence of lines)
    sanitized_diff,     \* run(): sanitized_diff
                        \* (the three above are read for the last time by
                        \* apply_schema_changes; the stage after it forgets them)
    warned,             \* the "Destructive changes detected" warning was printed
    files,              \* backup_dir: file name -> number of times written
    applied,            \* target database: the SQL the committed transaction ran
    active_branch,      \* repository: the checked-out branch ("" until the
                        \* run reaches the stage that opens the repository)
    tree,               \* repository: working tree state ("" likewise)
    current_branch,     \* deploy_code_changes: current_branch ("" before it runs)
    entries,            \* supabase/functions: the directory entries, in iterdir order
    idx,                \* deploy_edge_functions: position of the for loop
    deployed_count,     \* deploy_edge_functions: deployed_count
    failed_count,       \* deploy_edge_functions: failed_count
    attempted,          \* history: the entries a deploy call was issued for
    summary,            \* print_summary ran
    san                 \* sanitize_diff called on its own: the argument, the
                        \* result, and the result of calling it on the result

cfgVars  == <<dry_run, allow_destructive, prod_url, staging_url, san>>
diffVars == <<migra_out, diff_content, sanitized_diff, warned>>
repoVars == <<active_branch, tree, current_branch>>
funcVars == <<entries, idx, deployed_count, failed_count, attempted>>
vars == <<dry_run, allow_destructive, config, prod_url, staging_url, pc, exit_code,
          stages, calls, migra_out, diff_content, sanitized_diff, warned, files,
          applied, active_branch, tree, current_branch, entries, idx,
          deployed_count, failed_count, attempted, summary, san>>

\* ------------------------------------------------------------ configuration
Keys == {"SUPABASE_STAGING_REF", "SUPABASE_PROD_REF", "STAGING_DB_PASSWORD",
         "PRODUCTION_DB_PASSWORD", "SUPABASE_ACCESS_TOKEN"}

\* the hard-coded values of self.config
DefaultConfig == [k \in Keys |-> "default"]

\* os.environ after load_dotenv(): each key unset, set to "" or set to a value
Environs ==
    {e \in [Keys -> {"unset", "empty", "set"}] :
        Cardinality({k \in Keys : e[k] # "unset"}) <= MaxEnvOverrides}

\* the override loop: `if env_value:` takes only a non-empty value
OverrideConfig(cfg, env) ==
    [k \in Keys |-> IF env[k] = "set" THEN "env" ELSE cfg[k]]

\* missing_vars = [key for key, value in self.config.items() if not value]
MissingVars(cfg) == {k \in Keys : cfg[k] = ""}

\* the f-strings building the two connection strings in __init__
ProdUrl(cfg) ==
    [ref |-> cfg["SUPABASE_PROD_REF"], password |-> cfg["PRODUCTION_DB_PASSWORD"]]
StagingUrl(cfg) ==
    [ref |-> cfg["SUPABASE_STAGING_REF"], password |-> cfg["STAGING_DB_PASSWORD"]]

\* --------------------------------------------------------------- run order
\* mutant: the backup is taken after the diff has been generated
RunOrder_Mutant ==
    <<"load_environment", "test_connectivity", "generate_schema_diff",
      "create_backup", "sanitize_diff", "apply_schema_changes",
      "deploy_code_changes", "deploy_edge_functions", "print_summary">>

\* the call sequence of run()
RunOrder ==
    <<"load_environment", "test_connectivity", "create_backup",
      "generate_schema_diff", "sanitize_diff", "apply_schema_changes",
      "deploy_code_changes", "deploy_edge_functions", "print_summary">>

StageIndex(s) == CHOOSE i \in DOMAIN RunOrder : RunOrder[i] = s

\* the statement run() executes after stage s returns
After(s) ==
    IF StageIndex(s) = Len(RunOrder) THEN "done" ELSE RunOrder[StageIndex(s) + 1]

\* -------------------------------------------------------------- outcomes
\* subprocess.run(..., timeout=n)
TimedOutcomes == {"ok", "fail", "timeout", "error", "interrupt"}
\* subprocess.run(..., check=True) without timeout=, and GitPython calls: nothing
\* ends the wait for a command that never returns
UntimedOutcomes == {"ok", "fail", "error", "interrupt", "hang"}

Call(op, out, ref) == [op |-> op, out |-> out, ref |-> ref]

\* mutant: the handlers end the process with status 0
SysExit1_Mutant == pc' = "done" /\ exit_code' = 0

\* sys.exit(1)
SysExit1 ==
    /\ pc' = "done"
    /\ exit_code' = 1

\* the process waits in a call without timeout for a command that never returns
Blocked ==
    /\ pc' = "hung"
    /\ UNCHANGED exit_code

\* how the stage ends when a call without timeout did not return normally
Raised(out) == IF out = "hang" THEN Blocked ELSE SysExit1

\* no call of sanitize_diff on its own is under way
SanIdle == [step |-> "idle", input |-> <<>>, once |-> <<>>, twice |-> <<>>]

Init ==
    /\ san = SanIdle
    /\ dry_run \in BOOLEAN
    /\ allow_destructive \in BOOLEAN
    /\ config = DefaultConfig
    /\ prod_url = ProdUrl(DefaultConfig)
    /\ staging_url = StagingUrl(DefaultConfig)
    /\ pc = RunOrder[1]
    /\ exit_code = -1
    /\ stages = <<>>
    /\ calls = <<>>
    /\ migra_out = <<>>
    /\ diff_content = <<>>
    /\ sanitized_diff = <<>>
    /\ warned = FALSE
    /\ files = [f \in {"prod_full.sql", "schema_diff.sql",
                       "schema_diff_sanitized.sql", "apply_changes.sql"} |-> 0]
    /\ applied = <<>>
    /\ active_branch = ""
    /\ tree = ""
    /\ current_branch = ""
    /\ entries = <<>>
    /\ idx = 0
    /\ deployed_count = 0
    /\ failed_count = 0
    /\ attempted = <<>>
    /\ summary = FALSE

\* ---------------------------------------------------------- load_environment
load_environment ==
    /\ pc = "load_environment"
    /\ stages' = Append(stages, "load_environment")
    /\ \E env \in Environs :
        /\ config' = OverrideConfig(config, env)
        /\ IF MissingVars(config') # {}
           THEN SysExit1
           ELSE pc' = After("load_environment") /\ UNCHANGED exit_code
    /\ UNCHANGED <<cfgVars, calls, diffVars, files, applied, repoVars, funcVars,
                   summary>>

\* --------------------------------------------------------- test_connectivity
\* mutant: the probe's return code is never looked at
ProbeOk_Mutant(out) == out \in {"ok", "fail"}

\* the result of one probe is fatal unless it returned 0
ProbeOk(out) == out = "ok"

test_connectivity ==
    /\ pc = "test_connectivity"
    /\ stages' = Append(stages, "test_connectivity")
    /\ \E o1, o2 \in TimedOutcomes :
        LET c1 == Call("psql_probe_staging", o1, staging_url.ref)
            c2 == Call("psql_probe_prod", o2, prod_url.ref)
        IN  IF ~ProbeOk(o1)
            THEN o2 = "ok" /\ calls' = Append(calls, c1) /\ SysExit1
            ELSE /\ calls' = calls \o <<c1, c2>>
                 /\ IF ~ProbeOk(o2)
                    THEN SysExit1
                    ELSE pc' = After("test_connectivity") /\ UNCHANGED exit_code
    /\ UNCHANGED <<cfgVars, config, diffVars, files, applied, repoVars, funcVars,
                   summary>>

\* -------------------------------------------------------------- create_backup
\* mutant: a pg_dump that timed out is taken for a finished backup
BackupSucceeded_Mutant(out) == out \in {"ok", "timeout"}

\* mutant: pg_dump's return code is never looked at
BackupSucceeded_MutantAnyReturn(out) == out \in {"ok", "fail"}

\* `if result.returncode == 0:` ... `else: raise`; TimeoutExpired and every other
\* Exception reach the same handler, KeyboardInterrupt reaches run()'s
BackupSucceeded(out) == out = "ok"

create_backup ==
    /\ pc = "create_backup"
    /\ stages' = Append(stages, "create_backup")
    /\ IF dry_run
       THEN /\ pc' = After("create_backup")
            /\ UNCHANGED <<exit_code, calls, files>>
       ELSE \E o \in TimedOutcomes :
            /\ calls' = Append(calls, Call("pg_dump", o, config["SUPABASE_PROD_REF"]))
            /\ IF BackupSucceeded(o)
               THEN \* pg_dump -f wrote the dump
                    /\ files' = [files EXCEPT !["prod_full.sql"] = @ + 1]
                    /\ pc' = After("create_backup")
                    /\ UNCHANGED exit_code
               ELSE /\ SysExit1
                    /\ UNCHANGED files
    /\ UNCHANGED <<cfgVars, config, diffVars, applied, repoVars, funcVars, summary>>

\* ------------------------------------------------------- generate_schema_diff
\* A line of the comparison tool's output, by what the pipeline looks for in it:
\*   "add"     an additive statement          "drop"   a destructive statement
\*   "owner"   a statement with OWNER TO      "privs"  ALTER DEFAULT PRIVILEGES
\*   "blank"   an empty or whitespace line
\*   "marker"  the line holding "destructive statements generated"
\*   "mention" a statement of another kind whose text holds the words OWNER TO
\*             (a comment on a table, say); only sanitize_diff tells it from "add"
LineKinds == {"add", "drop", "owner", "privs", "blank"}

\* the outputs `migra --unsafe` can print: every line sequence up to MaxLen
MigraOutputs == UNION {[1..n -> LineKinds] : n \in 0..MaxLen}

IsDestructive(line) == line = "drop"
NonDestructive(line) == ~IsDestructive(line)

\* the output of the tool run without --unsafe (migra_flags as built when
\* allow_destructive is false): the destructive statements are left out and the
\* output says so
MigraSafe(out) ==
    IF \E i \in DOMAIN out : IsDestructive(out[i])
    THEN Append(SelectSeq(out, NonDestructive), "marker")
    ELSE out

\* str.strip() on the whole output: leading and trailing blank lines go
RECURSIVE Strip(_)
Strip(lines) ==
    IF lines = <<>> THEN <<>>
    ELSE IF Head(lines) = "blank" THEN Strip(Tail(lines))
    ELSE IF lines[Len(lines)] = "blank" THEN Strip(SubSeq(lines, 1, Len(lines) - 1))
    ELSE lines

\* "destructive statements generated" in diff_content.lower()
HasMarker(lines) == \E i \in DOMAIN lines : lines[i] = "marker"

\* the second pass: `if result.returncode == 0:` replaces diff_content
SecondPassTaken(out) == out = "ok"

generate_schema_diff ==
    /\ pc = "generate_schema_diff"
    /\ stages' = Append(stages, "generate_schema_diff")
    /\ \E out \in MigraOutputs, o1, o2 \in TimedOutcomes :
        LET first  == Strip(IF allow_destructive THEN out ELSE MigraSafe(out))
            gate   == ~allow_destructive /\ HasMarker(first)
            second == Strip(out)
            c1 == Call("docker_migra", o1, prod_url.ref)
            c2 == Call("docker_migra_unsafe", o2, prod_url.ref)
        IN  IF o1 # "ok"
            THEN \* raise / TimeoutExpired / KeyboardInterrupt: nothing written
                 /\ out = <<>> /\ o2 = "ok"
                 /\ calls' = Append(calls, c1)
                 /\ SysExit1
                 /\ UNCHANGED <<diffVars, files>>
            ELSE IF first = <<>>
            THEN \* `if not diff_content: return None`; run() skips sanitize and apply
                 /\ o2 = "ok"
                 /\ calls' = Append(calls, c1)
                 /\ migra_out' = out
                 /\ files' = [files EXCEPT !["schema_diff.sql"] = @ + 1]
                 /\ pc' = After("apply_schema_changes")
                 /\ UNCHANGED <<exit_code, diff_content, sanitized_diff, warned>>
            ELSE IF ~gate
            THEN /\ o2 = "ok"
                 /\ calls' = Append(calls, c1)
                 /\ migra_out' = out
                 /\ diff_content' = first
                 /\ files' = [files EXCEPT !["schema_diff.sql"] = @ + 1]
                 /\ pc' = After("generate_schema_diff")
                 /\ UNCHANGED <<exit_code, sanitized_diff, warned>>
            ELSE \* destructive changes detected but not allowed: second pass
                 /\ calls' = calls \o <<c1, c2>>
                 /\ migra_out' = out
                 /\ warned' = TRUE
                 /\ UNCHANGED sanitized_diff
                 /\ IF o2 \in {"ok", "fail"}
                    THEN /\ diff_content' = IF SecondPassTaken(o2) THEN second ELSE first
                         /\ files' = [files EXCEPT !["schema_diff.sql"] =
                                         IF SecondPassTaken(o2) THEN @ + 2 ELSE @ + 1]
                         /\ pc' = After("generate_schema_diff")
                         /\ UNCHANGED exit_code
                    ELSE \* TimeoutExpired / Exception / KeyboardInterrupt
                         /\ diff_content' = first
                         /\ files' = [files EXCEPT !["schema_diff.sql"] = @ + 1]
                         /\ SysExit1
    /\ UNCHANGED <<cfgVars, config, applied, repoVars, funcVars, summary>>

\* -------------------------------------------------------------- sanitize_diff
\* the three `continue` tests of the loop over lines
Skipped(line) == line \in {"owner", "mention", "privs", "blank"}
Kept(line) == ~Skipped(line)

\* mutant: the lines are removed from the list the loop is iterating over, so
\* the line after a removed one is never tested
RECURSIVE Sanitize_Mutant(_)
Sanitize_Mutant(lines) ==
    IF lines = <<>> THEN <<>>
    ELSE IF ~Skipped(Head(lines)) THEN <<Head(lines)>> \o Sanitize_Mutant(Tail(lines))
    ELSE IF Len(lines) = 1 THEN <<>>
    ELSE <<lines[2]>> \o Sanitize_Mutant(Tail(Tail(lines)))

\* mutant: each kept line is put at the front of sanitized_lines
Sanitize_MutantPrepend(lines) ==
    LET k == SelectSeq(lines, Kept)
    IN  [i \in 1..Len(k) |-> k[Len(k) + 1 - i]]

\* sanitize_diff's return value, the file write aside
Sanitize(lines) == IF lines = <<>> THEN <<>> ELSE SelectSeq(lines, Kept)

sanitize_diff ==
    /\ pc = "sanitize_diff"
    /\ stages' = Append(stages, "sanitize_diff")
    /\ sanitized_diff' = Sanitize(diff_content)
    /\ files' = IF diff_content = <<>> THEN files
                ELSE [files EXCEPT !["schema_diff_sanitized.sql"] = @ + 1]
    /\ pc' = After("sanitize_diff")
    /\ UNCHANGED <<cfgVars, config, exit_code, calls, migra_out, diff_content, warned,
                   applied, repoVars, funcVars, summary>>

\* ------------------------------------------------------- apply_schema_changes
\* sql_content: extension guards, BEGIN, the two SET LOCAL, the diff, COMMIT
Wrapper(lines) ==
    <<"create_extension", "create_extension", "create_extension", "create_extension",
      "begin", "set_local", "set_local">> \o lines \o <<"commit">>

\* mutant: the dry-run return is missing
ApplySkipped_Mutant(lines) == Strip(lines) = <<>>

\* mutant: the empty-diff return is missing
ApplySkipped_MutantEmpty(lines) == dry_run

\* the two early returns: nothing to apply, or dry run
ApplySkipped(lines) == Strip(lines) = <<>> \/ dry_run

\* mutant: psql's return code is never looked at
ApplySucceeded_Mutant(out) == out \in {"ok", "fail"}

\* `if result.returncode == 0:` ... `else: raise`
ApplySucceeded(out) == out = "ok"

apply_schema_changes ==
    /\ pc = "apply_schema_changes"
    /\ stages' = Append(stages, "apply_schema_changes")
    /\ IF ApplySkipped(sanitized_diff)
       THEN /\ pc' = After("apply_schema_changes")
            /\ UNCHANGED <<exit_code, calls, files, applied>>
       ELSE \E o \in TimedOutcomes, committed \in BOOLEAN :
            \* psql returned 0: the transaction committed.  psql could not be
            \* started: it did not.  Otherwise (non-zero return, killed at the
            \* timeout, interrupted) it may or may not have committed.
            /\ o = "ok" => committed
            /\ o = "error" => ~committed
            /\ files' = [files EXCEPT !["apply_changes.sql"] = @ + 1]
            /\ calls' = Append(calls, Call("psql_apply", o, prod_url.ref))
            /\ applied' = IF committed THEN Wrapper(sanitized_diff) ELSE applied
            /\ IF ApplySucceeded(o)
               THEN pc' = After("apply_schema_changes") /\ UNCHANGED exit_code
               ELSE SysExit1
    /\ UNCHANGED <<cfgVars, config, diffVars, repoVars, funcVars, summary>>

\* -------------------------------------------------------- deploy_code_changes
Branches == {"main", "feature", "realproduction"}
Trees == {"clean", "modified", "untracked"}

\* mutant: untracked files are not looked for
TreeIsDirty_Mutant(t) == t = "modified"

\* self.repo.is_dirty() or self.repo.untracked_files
TreeIsDirty(t) == t \in {"modified", "untracked"}

\* the git operations in the order the stage issues them; the last one,
\* "Return to original branch", only `if current_branch != 'realproduction'`
GitOps(cur) ==
    <<"git_fetch", "git_checkout", "git_merge", "git_push">>
        \o (IF cur # "realproduction" THEN <<"git_checkout_back">> ELSE <<>>)

\* the checked-out branch after the first n operations succeeded and (when
\* n < Len(ops)) the next one raised: nothing but the two checkouts moves it
BranchAfter(cur, n) ==
    IF n < 2 THEN cur
    ELSE IF n < 4 THEN "realproduction"
    ELSE IF n = Len(GitOps(cur)) THEN cur
    ELSE "realproduction"

deploy_code_changes ==
    /\ pc = "deploy_code_changes"
    /\ stages' = Append(stages, "deploy_code_changes")
    \* run() does not read its diff_content and sanitized_diff again
    /\ migra_out' = <<>> /\ diff_content' = <<>> /\ sanitized_diff' = <<>>
    \* the repository as Repo('.') finds it
    /\ \E b \in Branches, t \in Trees :
        /\ tree' = t
        /\ IF dry_run
           THEN /\ active_branch' = b
                /\ pc' = After("deploy_code_changes")
                /\ UNCHANGED <<exit_code, calls, current_branch>>
           ELSE /\ current_branch' = b
                /\ IF TreeIsDirty(t)
                   THEN /\ active_branch' = b
                        /\ SysExit1
                        /\ UNCHANGED calls
                   ELSE \E n \in 0..Len(GitOps(b)), f \in UntimedOutcomes \ {"ok"} :
                        \* n operations succeed; the next one, if any, raises f
                        \* (GitCommandError, another Exception or, caught by the
                        \* bare except around the checkout, anything at all)
                        LET ops == GitOps(b)
                            m == IF n = Len(ops) THEN n ELSE n + 1
                        IN  /\ n = Len(ops) => f = "fail"
                            /\ calls' = calls \o
                                 [i \in 1..m |->
                                    Call(ops[i], IF i <= n THEN "ok" ELSE f, "origin")]
                            /\ active_branch' = BranchAfter(b, n)
                            /\ IF n = Len(ops)
                               THEN pc' = After("deploy_code_changes")
                                    /\ UNCHANGED exit_code
                               ELSE Raised(f)
    /\ UNCHANGED <<cfgVars, config, warned, files, applied, funcVars, summary>>

\* ------------------------------------------------------ deploy_edge_functions
\* an entry of supabase/functions: a function directory, a directory whose name
\* starts with '_', or something that is not a directory
EntryKinds == {"func", "internal", "file"}
EntryLists == UNION {[1..n -> EntryKinds] : n \in 0..MaxUnits}

\* mutant: the '_' prefix is not looked at
IsDeployable_Mutant(entry) == entry \in {"func", "internal"}

\* func_dir.is_dir() and not func_dir.name.startswith('_')
IsDeployable(entry) == entry = "func"

\* the stage after the for loop ends
LoopExit(i, es) == IF i >= Len(es) THEN After("deploy_edge_functions") ELSE "deploy_loop"

\* mutant: check=True is missing, a non-zero return raises nothing
AuthSucceeded_Mutant(out) == out \in {"ok", "fail"}

\* subprocess.run(..., check=True) returned: the command exited with 0
AuthSucceeded(out) == out = "ok"

\* login and link (check=True, no timeout), then the directory listing
deploy_edge_functions ==
    /\ pc = "deploy_edge_functions"
    /\ stages' = Append(stages, "deploy_edge_functions")
    /\ IF dry_run
       THEN /\ pc' = After("deploy_edge_functions")
            /\ UNCHANGED <<exit_code, calls, funcVars>>
       ELSE \E o1, o2 \in UntimedOutcomes, es \in EntryLists :
            LET c1 == Call("supabase_login", o1, config["SUPABASE_ACCESS_TOKEN"])
                c2 == Call("supabase_link", o2, config["SUPABASE_PROD_REF"])
            IN  IF ~AuthSucceeded(o1)
                THEN /\ o2 = "ok" /\ es = <<>>
                     /\ calls' = Append(calls, c1)
                     /\ Raised(o1)
                     /\ UNCHANGED funcVars
                ELSE IF ~AuthSucceeded(o2)
                THEN /\ es = <<>>
                     /\ calls' = calls \o <<c1, c2>>
                     /\ Raised(o2)
                     /\ UNCHANGED funcVars
                ELSE \* functions_dir.iterdir(); a missing directory deploys
                     \* nothing, like an empty one
                     /\ calls' = calls \o <<c1, c2>>
                     /\ entries' = es
                     /\ idx' = 1
                     /\ pc' = LoopExit(0, es)
                     /\ UNCHANGED <<exit_code, deployed_count, failed_count, attempted>>
    /\ UNCHANGED <<cfgVars, config, diffVars, files, applied, repoVars, summary>>

\* mutant: the inner try has no `except subprocess.TimeoutExpired`/`except Exception`
Recorded_Mutant(out) == out \in {"ok", "fail"}

\* mutant: the inner try ends in a bare `except:`, which records an interrupt too
Recorded_MutantBare(out) == out \in {"ok", "fail", "timeout", "error", "interrupt"}

\* the outcomes of one deploy call the loop records and survives: a return code,
\* TimeoutExpired, any other Exception.  KeyboardInterrupt is none of them.
Recorded(out) == out \in {"ok", "fail", "timeout", "error"}

\* `if result.returncode == 0: deployed_count += 1`, every other recorded
\* outcome: failed_count += 1
CountsAsDeployed(out) == out = "ok"

\* one iteration of `for func_dir in functions_dir.iterdir()`
deploy_unit ==
    /\ pc = "deploy_loop"
    /\ IF ~IsDeployable(entries[idx])
       THEN /\ idx' = idx + 1
            /\ pc' = LoopExit(idx, entries)
            /\ UNCHANGED <<exit_code, calls, deployed_count, failed_count, attempted>>
       ELSE \E o \in TimedOutcomes :
            /\ calls' = Append(calls, Call("functions_deploy", o, config["SUPABASE_PROD_REF"]))
            /\ attempted' = Append(attempted, idx)
            /\ IF Recorded(o)
               THEN /\ deployed_count' = deployed_count + (IF CountsAsDeployed(o) THEN 1 ELSE 0)
                    /\ failed_count' = failed_count + (IF CountsAsDeployed(o) THEN 0 ELSE 1)
                    /\ idx' = idx + 1
                    /\ pc' = LoopExit(idx, entries)
                    /\ UNCHANGED exit_code
               ELSE /\ SysExit1
                    /\ UNCHANGED <<idx, deployed_count, failed_count>>
    /\ UNCHANGED <<cfgVars, config, stages, diffVars, files, applied, repoVars,
                   entries, summary>>

\* -------------------------------------------------------------- print_summary
\* the last statement of run(): the process then ends with status 0
print_summary ==
    /\ pc = "print_summary"
    /\ stages' = Append(stages, "print_summary")
    /\ summary' = TRUE
    /\ pc' = After("print_summary")
    /\ exit_code' = IF pc' = "done" THEN 0 ELSE exit_code
    /\ UNCHANGED <<cfgVars, config, calls, diffVars, files, applied, repoVars, funcVars>>

\* ------------------------------------------------- sanitize_diff on its own
\* the arguments: every sequence of lines up to MaxLen, of every kind of line
SanInputs == UNION {[1..n -> LineKinds \cup {"marker", "mention"}] : n \in 0..MaxLen}

pipeVars == <<dry_run, allow_destructive, config, prod_url, staging_url, pc, exit_code,
              stages, calls, migra_out, diff_content, sanitized_diff, warned, files,
              applied, active_branch, tree, current_branch, entries, idx,
              deployed_count, failed_count, attempted, summary>>

SanInit ==
    /\ san \in {[step |-> "input", input |-> d, once |-> <<>>, twice |-> <<>>] :
                   d \in SanInputs}
    /\ dry_run = FALSE
    /\ allow_destructive = FALSE
    /\ config = DefaultConfig
    /\ prod_url = ProdUrl(DefaultConfig)
    /\ staging_url = StagingUrl(DefaultConfig)
    /\ pc = "sanitize_only"
    /\ exit_code = -1
    /\ stages = <<>>
    /\ calls = <<>>
    /\ migra_out = <<>>
    /\ diff_content = <<>>
    /\ sanitized_diff = <<>>
    /\ warned = FALSE
    /\ files = [f \in {"prod_full.sql", "schema_diff.sql",
                       "schema_diff_sanitized.sql", "apply_changes.sql"} |-> 0]
    /\ applied = <<>>
    /\ active_branch = ""
    /\ tree = ""
    /\ current_branch = ""
    /\ entries = <<>>
    /\ idx = 0
    /\ deployed_count = 0
    /\ failed_count = 0
    /\ attempted = <<>>
    /\ summary = FALSE

\* sanitize_diff(d)
SanitizeOnce ==
    /\ san.step = "input"
    /\ san' = [san EXCEPT !.step = "once", !.once = Sanitize(san.input)]
    /\ UNCHANGED pipeVars

\* sanitize_diff(sanitize_diff(d))
SanitizeTwice ==
    /\ san.step = "once"
    /\ san' = [san EXCEPT !.step = "twice", !.twice = Sanitize(san.once)]
    /\ UNCHANGED pipeVars

SanNext ==
    \/ SanitizeOnce
    \/ SanitizeTwice

SpecSanitize == SanInit /\ [][SanNext]_vars

\* ===================================================================== claims
Last(s) == s[Len(s)]
Range(s) == {s[i] : i \in DOMAIN s}
CallsOf(ops) == {i \in DOMAIN calls : calls[i].op \in ops}

\* the stage that issues an external call
StageOfOp(op) ==
    CASE op \in {"psql_probe_staging", "psql_probe_prod"} -> "test_connectivity"
      [] op = "pg_dump" -> "create_backup"
      [] op \in {"docker_migra", "docker_migra_unsafe"} -> "generate_schema_diff"
      [] op = "psql_apply" -> "apply_schema_changes"
      [] op \in {"git_fetch", "git_checkout", "git_merge", "git_push",
                 "git_checkout_back"} -> "deploy_code_changes"
      [] OTHER -> "deploy_edge_functions"

\* C1: whenever the schema SQL is sent to the production target (and whenever
\* the target holds applied statements), a pg_dump that returned 0 precedes it in
\* the same run.
C1_BackupBeforeApply ==
    /\ \A i \in CallsOf({"psql_apply"}) :
          \E j \in 1..(i - 1) : calls[j].op = "pg_dump" /\ calls[j].out = "ok"
    /\ applied # <<>> =>
          \E j \in DOMAIN calls : calls[j].op = "pg_dump" /\ calls[j].out = "ok"

C1_Witness ==
    /\ ~dry_run
    /\ applied # <<>>
    /\ CallsOf({"psql_apply"}) # {}

\* the statements of a diff: its lines but the blank ones and the marker
IsStatement(line) == line \in {"add", "drop", "owner", "privs", "mention"}
Statements(lines) == SelectSeq(lines, IsStatement)

\* C2: with allow_destructive false and destructive statements in the computed
\* diff, the diff handed to sanitize/apply holds exactly the non-destructive
\* statements, the warning was printed, and no destructive statement is ever
\* applied to the target.
C2_GateReturnsAdditiveOnly ==
    /\ (/\ ~allow_destructive
        /\ pc = "sanitize_diff"
        /\ \E i \in DOMAIN migra_out : IsDestructive(migra_out[i]))
       => /\ warned
          /\ Statements(diff_content) = SelectSeq(Statements(migra_out), NonDestructive)
    /\ ~allow_destructive => \A i \in DOMAIN applied : ~IsDestructive(applied[i])

\* the external calls that change something outside the process
MutatingOps ==
    {"pg_dump", "psql_apply", "git_checkout", "git_merge", "git_push",
     "git_checkout_back", "supabase_login", "supabase_link", "functions_deploy"}

\* C3: in a dry run no mutating external call is ever made and the target is
\* left as it was.
C3_PreviewNoMutation ==
    dry_run => CallsOf(MutatingOps) = {} /\ applied = <<>>

C3_Witness ==
    /\ dry_run
    /\ pc = "done"
    /\ "apply_schema_changes" \in Range(stages)
    /\ tree = "modified"

\* C4 as stated: a dry run that has ended has printed the summary and exited 0,
\* whatever the external systems answered.
C4_PreviewAlwaysExitsZero ==
    (dry_run /\ pc = "done") => (exit_code = 0 /\ summary)

\* a call whose failure ends the run: every failed call but a non-zero return of
\* the second comparison pass and a recorded per-unit deploy failure
FatalCall(c) ==
    /\ c.out \notin {"ok", "hang"}
    /\ ~(c.op = "docker_migra_unsafe" /\ c.out = "fail")
    /\ ~(c.op = "functions_deploy" /\ c.out # "interrupt")

\* C4 (amended): a dry run that has ended has exited 0, summary printed, exactly
\* when no connectivity probe and no comparison call failed fatally; otherwise it
\* has exited 1 without the summary.
C4_PreviewExit ==
    (dry_run /\ pc = "done") =>
        /\ exit_code = (IF \E i \in DOMAIN calls : FatalCall(calls[i]) THEN 1 ELSE 0)
        /\ summary <=> exit_code = 0

C4_Witness ==
    /\ dry_run
    /\ pc = "done"
    /\ exit_code = 0
    /\ \E i \in DOMAIN calls : calls[i].op = "docker_migra_unsafe" /\ calls[i].out = "fail"

\* C5: a fatal failure is the last thing the run does: the failed call is the
\* last call, issued by the last stage started, the summary is not printed and
\* the exit status is 1; the exit status is 0 only after every stage up to the
\* summary.
C5_FailFast ==
    /\ \A i \in DOMAIN calls :
          FatalCall(calls[i]) =>
             /\ i = Len(calls)
             /\ Last(stages) = StageOfOp(calls[i].op)
             /\ pc = "done" /\ exit_code = 1 /\ ~summary
    /\ (~dry_run /\ tree \in {"modified", "untracked"}) =>
          /\ Last(stages) = "deploy_code_changes"
          /\ pc = "done" /\ exit_code = 1 /\ ~summary
    /\ exit_code = 1 => pc = "done" /\ ~summary
    /\ exit_code = 0 =>
          /\ pc = "done" /\ summary
          /\ Last(stages) = "print_summary"
          /\ {"load_environment", "test_connectivity", "create_backup",
              "generate_schema_diff", "deploy_code_changes",
              "deploy_edge_functions"} \subseteq Range(stages)
          /\ \A i \in DOMAIN calls : ~FatalCall(calls[i])

C5_Witness ==
    /\ pc = "done"
    /\ exit_code = 1
    /\ calls # <<>>
    /\ Last(calls).op = "psql_apply"
    /\ Last(stages) = "apply_schema_changes"

\* the order of the stages as stated
StatedOrder ==
    <<"load_environment", "test_connectivity", "create_backup",
      "generate_schema_diff", "sanitize_diff", "apply_schema_changes",
      "deploy_code_changes", "deploy_edge_functions", "print_summary">>
PosOf == [s \in Range(StatedOrder) |-> CHOOSE i \in DOMAIN StatedOrder : StatedOrder[i] = s]
AllOps ==
    {"psql_probe_staging", "psql_probe_prod", "pg_dump", "docker_migra",
     "docker_migra_unsafe", "psql_apply", "git_fetch", "git_checkout", "git_merge",
     "git_push", "git_checkout_back", "supabase_login", "supabase_link",
     "functions_deploy"}
OpPos == [op \in AllOps |-> PosOf[StageOfOp(op)]]

\* C6: the stages start in the stated order, each at most once, none left out
\* but sanitize and apply after an empty diff; the external calls appear in the
\* order of their stages.
C6_StagesInOrder ==
    /\ stages # <<>> => stages[1] = StatedOrder[1]
    /\ \A i \in 1..(Len(stages) - 1) :
          \/ PosOf[stages[i + 1]] = PosOf[stages[i]] + 1
          \/ stages[i] = "generate_schema_diff" /\ stages[i + 1] = "deploy_code_changes"
    /\ \A i \in 1..(Len(calls) - 1) : OpPos[calls[i].op] <= OpPos[calls[i + 1].op]
    /\ calls # <<>> => OpPos[Last(calls).op] <= PosOf[Last(stages)]
    /\ CallsOf({"psql_apply"}) # {} => "apply_schema_changes" \in Range(stages)

C6_Witness ==
    /\ pc = "done"
    /\ exit_code = 0
    /\ stages = StatedOrder
    /\ ~dry_run

\* C7: in a live run with a modified or untracked working tree, code promotion
\* ends the run with status 1 and not one git operation has been issued.
C7_DirtyTreeNoGit ==
    (~dry_run /\ tree \in {"modified", "untracked"}) =>
        /\ pc = "done" /\ exit_code = 1
        /\ CallsOf({"git_fetch", "git_checkout", "git_merge", "git_push",
                    "git_checkout_back"}) = {}

C7_Witness ==
    /\ ~dry_run
    /\ tree = "untracked"
    /\ Last(stages) = "deploy_code_changes"

\* C8: once a live code promotion has run, on whatever path it ended, the
\* checked-out branch is the one that was checked out when it began.
C8_BranchRestored ==
    current_branch # "" => active_branch = current_branch

\* the non-internal units of the listing, and the deploy calls of the log
FuncIdx == {i \in DOMAIN entries : entries[i] = "func"}
DeployCalls == CallsOf({"functions_deploy"})

\* C9: a deploy call is issued for function directories only, never for an
\* internal ('_') one, once each and in listing order; no recorded outcome stops
\* the loop; when the loop ends every function directory has been attempted,
\* deployed_count is the number of calls that returned 0, failed_count the
\* number of the others, and the two add up to the number of function directories.
C9_EveryUnitOnce ==
    /\ \A k \in DOMAIN attempted : attempted[k] \in FuncIdx
    /\ \A k1, k2 \in DOMAIN attempted : k1 < k2 => attempted[k1] < attempted[k2]
    /\ Len(attempted) = Cardinality(DeployCalls)
    /\ pc = "deploy_loop" =>
          /\ Range(attempted) = {i \in FuncIdx : i < idx}
          /\ deployed_count + failed_count = Len(attempted)
    /\ (calls # <<>> /\ Last(calls).op = "functions_deploy" /\ exit_code = 1) =>
          Last(calls).out = "interrupt"
    /\ (~dry_run /\ "deploy_edge_functions" \in Range(stages)
            /\ pc \in {"print_summary", "done"} /\ exit_code # 1) =>
          /\ Range(attempted) = FuncIdx
          /\ deployed_count = Cardinality({i \in DeployCalls : calls[i].out = "ok"})
          /\ failed_count = Cardinality({i \in DeployCalls : calls[i].out # "ok"})
          /\ deployed_count + failed_count = Cardinality(FuncIdx)

C9_Witness ==
    /\ pc = "done"
    /\ exit_code = 0
    /\ entries = <<"func", "func">>
    /\ deployed_count = 1
    /\ failed_count = 1
    /\ calls[Len(calls) - 1].op = "functions_deploy"
    /\ calls[Len(calls) - 1].out = "timeout"

\* C10: once login and link have succeeded, a run in which every deploy call
\* came back (return code, timeout or error) ends with the summary and status 0.
C10_DeployNeverAborts ==
    (/\ \E i \in DOMAIN calls : calls[i].op = "supabase_link" /\ calls[i].out = "ok"
     /\ \A i \in DeployCalls : calls[i].out \in {"ok", "fail", "timeout", "error"})
    => /\ exit_code # 1
       /\ pc = "done" => exit_code = 0 /\ summary

C10_Witness ==
    /\ pc = "done"
    /\ exit_code = 0
    /\ summary
    /\ deployed_count = 0
    /\ failed_count = 2
    /\ \E i \in DeployCalls : calls[i].out = "timeout"
    /\ \E i \in DeployCalls : calls[i].out = "fail"

\* C11: sanitizing a sanitized diff gives the same diff.
C11_SanitizeIdempotent ==
    san.step = "twice" => san.twice = san.once

C11_Witness ==
    /\ san.step = "twice"
    /\ san.input = <<"owner", "privs">>
    /\ san.once = <<>>

\* C12: sanitizing leaves no ownership-reassignment and no default-privilege
\* statement, keeps every other statement, and so never raises the statement
\* count, which stays the same exactly when the diff holds neither kind.
C12_SanitizeRemovesOwnerAndPrivs ==
    san.step \in {"once", "twice"} =>
        LET d == san.input
            s == san.once
            targeted(line) == line \in {"owner", "privs"}
            other(line) == ~targeted(line)
        IN  /\ \A i \in DOMAIN s : ~targeted(s[i])
            /\ Statements(s) = SelectSeq(Statements(d), other)
            /\ Len(Statements(s)) <= Len(Statements(d))
            /\ Len(Statements(s)) = Len(Statements(d))
                  <=> \A i \in DOMAIN d : ~targeted(d[i])

\* C13: when the comparison found no difference (run() skips sanitize and apply)
\* or the sanitized diff handed to the apply stage is empty, no apply script is
\* written, no SQL is sent to production, nothing is applied, and the run goes on
\* to the code promotion without an exit.
C13_EmptyDiffIsNoOp ==
    LET absent == /\ stages # <<>> /\ Last(stages) = "generate_schema_diff"
                  /\ Last(calls).op = "docker_migra" /\ Last(calls).out = "ok"
                  /\ diff_content = <<>>
        empty  == /\ stages # <<>> /\ Last(stages) = "apply_schema_changes"
                  /\ Strip(sanitized_diff) = <<>>
    IN  (absent \/ empty) =>
            /\ pc = "deploy_code_changes"
            /\ exit_code = -1
            /\ CallsOf({"psql_apply"}) = {}
            /\ files["apply_changes.sql"] = 0
            /\ applied = <<>>

C13_Witness ==
    /\ ~dry_run
    /\ stages # <<>> /\ Last(stages) = "apply_schema_changes"
    /\ diff_content # <<>>
    /\ sanitized_diff = <<>>
    /\ pc = "deploy_code_changes"

\* C14: when the gate made the second comparison pass, whether that pass
\* succeeded, returned non-zero or timed out, the diff stage completes without
\* an exit and hands its diff to sanitize_diff.
C14_GateNeverFailsRun ==
    (/\ stages # <<>> /\ Last(stages) = "generate_schema_diff"
     /\ calls # <<>>
     /\ Last(calls).op = "docker_migra_unsafe"
     /\ Last(calls).out \in {"ok", "fail", "timeout"})
        => /\ pc = "sanitize_diff"
           /\ exit_code = -1
           /\ diff_content # <<>>

\* C15: an operator interrupt that arrives during an external call of any stage
\* ends the run there: no later call is made, no later stage and no further
\* deploy unit is started, the summary is not printed, and the exit status is 1.
C15_InterruptStopsRun ==
    \A i \in DOMAIN calls :
        calls[i].out = "interrupt" =>
            /\ i = Len(calls)
            /\ pc = "done"
            /\ exit_code = 1
            /\ ~summary
            /\ Last(stages) = StageOfOp(calls[i].op)
            /\ calls[i].op = "functions_deploy" =>
                  /\ Last(attempted) = idx
                  /\ deployed_count + failed_count = Len(attempted) - 1

\* interrupted in the deploy loop with a deployable unit still to come
C15_Witness ==
    /\ calls # <<>>
    /\ Last(calls).op = "functions_deploy"
    /\ Last(calls).out = "interrupt"
    /\ pc = "done"
    /\ idx < Len(entries)
    /\ IsDeployable(entries[idx + 1])

\* an external call that returned non-zero or was killed at its timeout
Failed(c) == c.out \in {"fail", "timeout"}

DatabaseOps ==
    {"psql_probe_staging", "psql_probe_prod", "pg_dump", "docker_migra",
     "docker_migra_unsafe", "psql_apply"}

\* C17: once the schema transaction is committed on production, every later step
\* of the run leaves what was applied as it is and makes no call to a database;
\* a step that fails fatally (dirty tree, git or deploy-service failure) ends the
\* run with status 1.
C17_NoRollback ==
    [][applied # <<>> =>
          /\ applied' = applied
          /\ \A i \in (Len(calls) + 1)..Len(calls') : calls'[i].op \notin DatabaseOps
          /\ (calls' # calls /\ FatalCall(Last(calls'))) =>
                (pc' = "done" /\ exit_code' = 1 /\ ~summary')
          /\ (pc = "deploy_code_changes" /\ TreeIsDirty(tree')) =>
                (pc' = "done" /\ exit_code' = 1 /\ calls' = calls)
      ]_vars

\* the merge failed after the schema change was committed
C17_Witness ==
    /\ applied # <<>>
    /\ CallsOf({"psql_apply"}) # {}
    /\ Last(calls).op = "git_merge"
    /\ Last(calls).out = "fail"
    /\ pc = "done" /\ exit_code = 1

\* C18: every external call is made with a timeout, so no call waits without
\* end for a command that never returns and no run is left blocked in one.
C18_EveryCallTimesOut ==
    /\ pc # "hung"
    /\ \A i \in DOMAIN calls : calls[i].out # "hang"

\* C19: a live run logs in at most once, before any link or unit deploy, and
\* links at most once, right after a login that succeeded; it has done both when
\* it gets to deploy anything; every unit deploy follows the successful link or
\* another unit deploy; a login or link that fails is the last call of the run,
\* which ends with status 1 and no unit deploy call.
C19_AuthOnceBeforeDeploy ==
    /\ \A i \in DOMAIN calls :
          LET c == calls[i]
          IN  /\ c.op = "supabase_login" =>
                    \A j \in 1..(i - 1) :
                        calls[j].op \notin {"supabase_login", "supabase_link",
                                            "functions_deploy"}
              /\ c.op = "supabase_link" =>
                    /\ i > 1
                    /\ calls[i - 1].op = "supabase_login" /\ calls[i - 1].out = "ok"
              /\ c.op = "functions_deploy" =>
                    /\ i > 1
                    /\ \/ calls[i - 1].op = "functions_deploy"
                       \/ calls[i - 1].op = "supabase_link" /\ calls[i - 1].out = "ok"
              /\ (c.op \in {"supabase_login", "supabase_link"}
                    /\ c.out \in {"fail", "error"}) =>
                    /\ i = Len(calls)
                    /\ pc = "done" /\ exit_code = 1 /\ ~summary
                    /\ \A j \in DOMAIN calls : calls[j].op # "functions_deploy"
    /\ (~dry_run /\ pc \in {"deploy_loop", "print_summary"}) =>
          \E i \in DOMAIN calls : calls[i].op = "supabase_link"

\* the login succeeded and the link failed
C19_Witness ==
    /\ Len(calls) >= 2
    /\ calls[Len(calls) - 1].op = "supabase_login"
    /\ calls[Len(calls) - 1].out = "ok"
    /\ Last(calls).op = "supabase_link"
    /\ Last(calls).out = "fail"
    /\ pc = "done" /\ exit_code = 1

\* C20: what the committed apply script holds between its SET LOCAL lines and
\* its COMMIT is the returned diff without its ownership, default-privilege and
\* blank lines, every other line once and in the diff's order; the lines the
\* script adds around them are no diff statements.
C20_AppliedInDiffOrder ==
    (applied # <<>> /\ Last(stages) = "apply_schema_changes") =>
        LET removed(line) == line \in {"owner", "mention", "privs", "blank"}
            stays(line) == ~removed(line)
            n == Len(applied)
        IN  /\ n >= 8
            /\ SubSeq(applied, 8, n - 1) = SelectSeq(diff_content, stays)
            /\ Statements(applied) = SelectSeq(Statements(diff_content), stays)

\* two statements of the diff were applied, in the diff's order
C20_Witness ==
    /\ stages # <<>>
    /\ Last(stages) = "apply_schema_changes"
    /\ diff_content = <<"add", "drop">>
    /\ Statements(applied) = <<"add", "drop">>
    /\ pc = "deploy_code_changes"

\* C21: the configuration record is what the constructor made it: the project
\* identifiers and credentials and the two connection strings built from them
\* hold, in every state of the run, the values they were constructed with.
C21_ConfigReadOnly ==
    /\ config = DefaultConfig
    /\ prod_url = ProdUrl(DefaultConfig)
    /\ staging_url = StagingUrl(DefaultConfig)

\* C22: each artifact file of the run directory (backup dump, schema diff,
\* sanitized diff, apply script) is written at most once in a run.
C22_ArtifactsWriteOnce ==
    \A f \in DOMAIN files : files[f] <= 1

\* the external calls that address the production database
ProdOps ==
    {"psql_probe_prod", "pg_dump", "docker_migra", "docker_migra_unsafe", "psql_apply"}

\* C23: the production probe, the backup, the comparison and the apply of one
\* run all address the same production project.
C23_BackupProtectsTarget ==
    \A i, j \in CallsOf(ProdOps) : calls[i].ref = calls[j].ref

\* ------------------------------------------------------------ specification
Next ==
    \/ load_environment
    \/ test_connectivity
    \/ create_backup
    \/ generate_schema_diff
    \/ sanitize_diff
    \/ apply_schema_changes
    \/ deploy_code_changes
    \/ deploy_edge_functions
    \/ deploy_unit
    \/ print_summary

Spec == Init /\ [][Next]_vars
====
